---- MODULE Spec2Model ----
(***************************************************************************)
(* A model of drift-js: a grid of line segments whose opacity, length,     *)
(* width and pivot rotation are rewritten every animation frame from a     *)
(* 3D noise field, a parameter panel that writes the tunables, and the H   *)
(* key that shows and hides the panel and the stats overlay.               *)
(*                                                                         *)
(* Two scripts are modelled: src/main.js ("main") and the earlier variant  *)
(* src/unnamed/part_000 ("part_000"), which has no mobile layout and maps  *)
(* the noise sample to an angle of the opposite sign.                      *)
(*                                                                         *)
(* Numbers.  JavaScript numbers that are divided (everything mapNoise      *)
(* touches) are exact rationals <<numerator, denominator>>; the noise      *)
(* offsets, which are only ever added, are integers in fixed units:        *)
(* xoff, yoff and the noise increments in thousandths, zoff and noiseSpeed *)
(* in hundred-thousandths.  Colour components are in tenths.  Rounding of  *)
(* IEEE doubles is not modelled.                                           *)
(***************************************************************************)
EXTENDS Integers, Sequences, FiniteSets, TLC

\* ------------------------------------------------------------------ bounds
MaxFrames == 2      \* draw passes begun
MaxEvents == 2      \* panel changes and key presses dispatched
MaxThrows == 1      \* exceptions raised inside draw passes
MaxMapInput == 1    \* |argument| of the mapNoise inputs of SpecMap

\* ------------------------------------------------------- program constants
MobileMaxWidth == 767
GridResolutionMobile == 10
GridResolutionDesktop == 28
LineWidthInit == 10
LineWidthMin == 1
LineWidthMax == 20
LineHeightInitMobile == 80
LineHeightInitDesktop == 180
LineHeightMin == 50
LineHeightMax == 300
NoiseSpeedInit == 3
NoiseSpeedMin == 1
NoiseSpeedMax == 50
NoiseIncrementXInitMobile == 48
NoiseIncrementXInitDesktop == 15
NoiseIncrementYInitMobile == 63
NoiseIncrementYInitDesktop == 50
NoiseIncrementMin == 1
NoiseIncrementMax == 100

\* Resolution of the modelled numbers.
NoiseScale == 5     \* noise3D returns k / NoiseScale, k in -NoiseScale..NoiseScale
ColorScale == 10    \* a colour component c stands for c / ColorScale

\* <<script, window.innerWidth, window.innerHeight>> at page load: main.js in
\* its mobile and its desktop layout, and the earlier variant.
Pages == {<<"main", 30, 20>>, <<"main", 768, 20>>, <<"part_000", 30, 40>>}
Seeds == {0, NoiseScale, 2 * NoiseScale}
\* Three successive Math.random() results, as numerators over ColorScale:
\* each is a value in [0, 1).
RandomDraws == {<<0, 0, 0>>, <<ColorScale - 1, 5, 0>>}
Keys == {"h", "H", "x"}

\* ------------------------------------------------------------- arithmetic
Abs(i) == IF i < 0 THEN -i ELSE i

RECURSIVE GCD(_, _)
GCD(a, b) == IF b = 0 THEN a ELSE GCD(b, a % b)

\* The rational n/d (d # 0) in lowest terms with a positive denominator.
Rat(n, d) ==
    LET s == IF d < 0 THEN -1 ELSE 1
        g == GCD(Abs(n), Abs(d))
    IN  <<(s * n) \div g, (s * d) \div g>>

Num(i) == <<i, 1>>
RatAdd(p, q) == Rat(p[1] * q[2] + q[1] * p[2], p[2] * q[2])
RatSub(p, q) == Rat(p[1] * q[2] - q[1] * p[2], p[2] * q[2])
RatMul(p, q) == Rat(p[1] * q[1], p[2] * q[2])
RatDiv(p, q) == Rat(p[1] * q[2], p[2] * q[1])
RatNeg(p) == <<-p[1], p[2]>>
RatLeq(p, q) == p[1] * q[2] <= q[1] * p[2]

\* Math.PI, as the rational 355/113
PI == <<355, 113>>

\* What a division by zero leaves in a JavaScript number: NaN or +-Infinity.
NotFinite == <<0, 0>>

\* mapNoise(current, in_min, in_max, out_min, out_max)
mapNoiseShifted(current, in_min, in_max, out_min, out_max) ==
    IF in_max = in_min
    THEN NotFinite
    ELSE RatAdd(RatDiv(RatMul(RatSub(current, in_min), RatSub(out_max, out_min)),
                       RatSub(in_max, in_min)),
                in_min)

mapNoise(current, in_min, in_max, out_min, out_max) ==
    IF in_max = in_min
    THEN NotFinite
    ELSE RatAdd(RatDiv(RatMul(RatSub(current, in_min), RatSub(out_max, out_min)),
                       RatSub(in_max, in_min)),
                out_min)

\* ------------------------------------------------------------------ state
VARIABLES
    variant,        \* which script runs
    width, height,  \* viewport size read by setup()
    seed,           \* the permutation createNoise3D() drew
    stage,          \* position of the module's top-level code
    pc,             \* position inside draw: "idle", "cells", "render"
    active,         \* draw activations on the call stack
    pending,        \* draw callbacks queued by requestAnimationFrame
    lineIndex, x, y, xoff, yoff,   \* draw's locals
    zoff,
    lines, pivots,
    colors,
    lineWidth, lineHeight, noiseSpeed, noiseIncrementX, noiseIncrementY,
    hasXrotation, hasYrotation, hasZrotation,
    isOrbitControlsEnabled, controlsEnabled,
    showGUI, guiVisible, statsAttached, instructionsDisplay,
    mapArgs, mapOut,   \* inputs and results of the mapNoise harness (SpecMap)
    hist            \* history of the run, read only by the properties

viewVars == <<variant, width, height, seed>>
loopVars == <<lineIndex, x, y, xoff, yoff>>
tunVars == <<lineWidth, lineHeight, noiseSpeed, noiseIncrementX, noiseIncrementY,
             hasXrotation, hasYrotation, hasZrotation>>
orbitVars == <<isOrbitControlsEnabled, controlsEnabled>>
guiVars == <<showGUI, guiVisible, statsAttached, instructionsDisplay>>
mapVars == <<mapArgs, mapOut>>
vars == <<viewVars, stage, pc, active, pending, loopVars, zoff, lines, pivots,
          colors, tunVars, orbitVars, guiVars, mapVars, hist>>

\* --------------------------------------------------------- startup values
isMobile == variant = "main" /\ width <= MobileMaxWidth
gridResolution ==
    IF isMobile THEN GridResolutionMobile ELSE GridResolutionDesktop

\* Math.ceil(a / b) for positive integers
Ceil(a, b) == (a + b - 1) \div b
rows == Ceil(height, gridResolution)
cols == Ceil(width, gridResolution)

\* The far end of the angle range: Math.PI in main.js, -Math.PI in the variant.
AngleMaxFullTurn == RatMul(Num(2), PI)

AngleMax == IF variant = "main" THEN PI ELSE RatNeg(PI)

\* noise3D(x, y, z): a fixed function of its arguments once createNoise3D()
\* has drawn its permutation, with values in [-1, 1].
noise3DByPosition(nx, ny, nz) ==
    Rat(((seed + lineIndex) % (2 * NoiseScale + 1)) - NoiseScale, NoiseScale)

noise3D(nx, ny, nz) ==
    Rat(((seed + 3 * nx + 5 * ny + 7 * nz) % (2 * NoiseScale + 1)) - NoiseScale,
        NoiseScale)

\* getVertices: x, y pairs, row-major, centred on the viewport origin.
getVertices ==
    [v \in 1 .. 2 * rows * cols |->
        LET cell == (v - 1) \div 2
            r == cell \div cols
            c == cell % cols
        IN  IF v % 2 = 1
            THEN RatSub(Num(c * gridResolution), Rat(width, 2))
            ELSE RatSub(Num(r * gridResolution), Rat(height, 2))]

\* const colors = [0, 0, 0, 0, 0.3, 1]
ColorsInit == <<0, 0, 0, 0, (3 * ColorScale) \div 10, ColorScale>>

\* initLinesGrid: one line and one pivot per vertex pair.
initLinesGridExtra ==
    LET vertices == getVertices
        count == Len(vertices) \div 2
    IN  [lines |-> [i \in 1 .. count + 1 |->
                      [id |-> i, opacity |-> Num(1), scaleZ |-> Num(1),
                       linewidth |-> Num(LineWidthInit), colors |-> ColorsInit]],
         pivots |-> [i \in 1 .. count |->
                      [id |-> i,
                       position |-> <<vertices[2 * i - 1], vertices[2 * i]>>,
                       rx |-> Num(0), ry |-> Num(0), rz |-> Num(0)]]]

initLinesGrid ==
    LET vertices == getVertices
        count == Len(vertices) \div 2
    IN  [lines |-> [i \in 1 .. count |->
                      [id |-> i, opacity |-> Num(1), scaleZ |-> Num(1),
                       linewidth |-> Num(LineWidthInit), colors |-> ColorsInit]],
         pivots |-> [i \in 1 .. count |->
                      [id |-> i,
                       position |-> <<vertices[2 * i - 1], vertices[2 * i]>>,
                       rx |-> Num(0), ry |-> Num(0), rz |-> Num(0)]]]

HistInit ==
    [passes |-> 0,          \* draw passes begun
     completed |-> 0,       \* draw passes that reached their end
     events |-> 0,          \* panel changes and key presses dispatched
     throws |-> 0,          \* exceptions raised inside draw
     resumed |-> FALSE,     \* a pass began after an exception
     hPresses |-> 0,        \* H keydowns since setupGUI
     domMisuse |-> FALSE,   \* removeChild of a detached overlay, or a second append
     randomised |-> FALSE,  \* randomColour has run
     passStartZ |-> 0,      \* zoff when the current pass began
     cellsVisited |-> 0,    \* cells the current pass has written
     angle |-> <<>>,        \* draw's `angle` for each cell, as last computed
     sample |-> <<>>,       \* draw's `n` for each cell
     coords |-> <<>>,       \* the noise coordinate each cell sampled
     lastFrame |-> <<>>,    \* <<lines, pivots>> at the end of the last complete pass
     prevFrame |-> <<>>]    \* ... and of the complete pass before it

\* The state once setup() and initLinesGrid() have run, before draw() is called.
InitWith(pages, seeds, speed, incX, incY, args) ==
    /\ \E page \in pages :
          variant = page[1] /\ width = page[2] /\ height = page[3]
    /\ seed \in seeds
    /\ stage = "start"
    /\ pc = "idle"
    /\ active = 0
    /\ pending = 0
    /\ lineIndex = 0 /\ x = 0 /\ y = 0 /\ xoff = 0 /\ yoff = 0
    /\ zoff = 0
    /\ lines = initLinesGrid.lines
    /\ pivots = initLinesGrid.pivots
    /\ colors = ColorsInit
    /\ lineWidth = LineWidthInit
    /\ lineHeight = IF isMobile THEN LineHeightInitMobile ELSE LineHeightInitDesktop
    /\ noiseSpeed = speed
    /\ noiseIncrementX = incX
    /\ noiseIncrementY = incY
    /\ hasXrotation = TRUE
    /\ hasYrotation = TRUE
    /\ hasZrotation = FALSE
    /\ isOrbitControlsEnabled = FALSE
    /\ controlsEnabled = FALSE
    /\ showGUI = FALSE
    /\ guiVisible = FALSE
    /\ statsAttached = TRUE
    /\ instructionsDisplay = "css"
    /\ mapArgs \in args
    /\ mapOut = <<>>
    /\ hist = [HistInit EXCEPT
                 !.angle = [i \in 1 .. rows * cols |-> Num(0)],
                 !.sample = [i \in 1 .. rows * cols |-> Num(0)],
                 !.coords = [i \in 1 .. rows * cols |-> <<>>]]

Init ==
    InitWith(Pages, Seeds, NoiseSpeedInit,
             IF isMobile THEN NoiseIncrementXInitMobile ELSE NoiseIncrementXInitDesktop,
             IF isMobile THEN NoiseIncrementYInitMobile ELSE NoiseIncrementYInitDesktop,
             {<<>>})

\* ------------------------------------------------------------- draw passes
\* requestAnimationFrame(draw): one more draw callback in the browser's queue.
requestAnimationFrameTwice(queue) == queue + 2

requestAnimationFrameDropped(queue) == queue

requestAnimationFrame(queue) == queue + 1

\* zoff += noiseSpeed, at the place the source puts it: after a row's cells.
AdvanceZoffPerCell(z, rowEnded) == z + noiseSpeed

AdvanceZoff(z, rowEnded) == IF rowEnded THEN z + noiseSpeed ELSE z

\* The top of draw: request the next frame, stats.update(), reset the locals.
DrawEnter(queue) ==
    /\ pending' = requestAnimationFrame(queue)
    /\ active' = active + 1
    /\ lineIndex' = 0
    /\ yoff' = 0
    /\ y' = 0
    /\ xoff' = 0
    /\ x' = 0
    /\ pc' = "cells"
    /\ hist' = [hist EXCEPT !.passes = @ + 1,
                            !.resumed = @ \/ hist.throws > 0,
                            !.passStartZ = zoff,
                            !.cellsVisited = 0]
    /\ UNCHANGED <<viewVars, zoff, lines, pivots, colors, tunVars, orbitVars,
                   guiVars, mapVars>>

\* draw() at the module's top level, before setupGUI().
CallDraw ==
    /\ stage = "start"
    /\ stage' = "firstPass"
    /\ DrawEnter(pending)

\* The browser runs a queued draw callback; it does so only on an empty stack.
FrameCallback ==
    /\ stage \in {"loop", "aborted"}
    /\ active = 0
    /\ pending > 0
    /\ hist.passes < MaxFrames
    /\ UNCHANGED stage
    /\ DrawEnter(pending - 1)

\* draw returns or is left by an exception: what the top-level code does next.
StageAfter(threw) ==
    IF stage = "firstPass"
    THEN IF threw THEN "aborted" ELSE "setupGUI"
    ELSE stage

\* One iteration of the inner loop, with the loop tests that follow it.
DrawCell ==
    /\ pc = "cells"
    /\ IF lineIndex + 1 \notin DOMAIN lines \/ lineIndex + 1 \notin DOMAIN pivots
       THEN \* lines[lineIndex] is undefined: a TypeError leaves draw
            /\ pc' = "idle"
            /\ active' = active - 1
            /\ stage' = StageAfter(TRUE)
            /\ hist' = [hist EXCEPT !.throws = @ + 1]
            /\ UNCHANGED <<loopVars, zoff, lines, pivots>>
       ELSE LET n == noise3D(xoff, yoff, zoff)
                angle == mapNoise(n, Num(-1), Num(1), Num(0), AngleMax)
                rowEnded == ~(x + 1 < cols)
                passEnded == rowEnded /\ ~(y + 1 < rows)
            IN  /\ lines' = [lines EXCEPT ![lineIndex + 1] =
                        [@ EXCEPT
                           !.opacity = mapNoise(n, Num(-1), Num(1), Num(0), Num(1)),
                           !.scaleZ = mapNoise(n, Num(-1), Num(1), Num(0), Num(lineHeight)),
                           !.linewidth = mapNoise(n, Num(-1), Num(1), Num(1), Num(lineWidth))]]
                /\ pivots' = [pivots EXCEPT ![lineIndex + 1] =
                        [@ EXCEPT
                           !.ry = IF hasXrotation THEN angle ELSE Num(0),
                           !.rx = IF hasYrotation THEN angle ELSE Num(0),
                           !.rz = IF hasZrotation THEN angle ELSE Num(0)]]
                /\ lineIndex' = lineIndex + 1
                /\ xoff' = IF rowEnded /\ ~passEnded THEN 0 ELSE xoff + noiseIncrementX
                /\ x' = IF rowEnded /\ ~passEnded THEN 0 ELSE x + 1
                /\ yoff' = IF rowEnded THEN yoff + noiseIncrementY ELSE yoff
                /\ y' = IF rowEnded THEN y + 1 ELSE y
                /\ zoff' = AdvanceZoff(zoff, rowEnded)
                /\ pc' = IF passEnded THEN "render" ELSE "cells"
                /\ hist' = [hist EXCEPT !.cellsVisited = @ + 1,
                                        !.angle[lineIndex + 1] = angle,
                                        !.sample[lineIndex + 1] = n,
                                        !.coords[lineIndex + 1] = <<xoff, yoff, zoff>>]
                /\ UNCHANGED <<stage, active>>
    /\ UNCHANGED <<viewVars, pending, colors, tunVars, orbitVars, guiVars, mapVars>>

\* What a pass wrote for cell i.
Attributes(i) ==
    <<lines[i].opacity, lines[i].scaleZ, lines[i].linewidth,
      pivots[i].rx, pivots[i].ry, pivots[i].rz>>

\* controls.update(); renderer.render(scene, camera); renderer.clearDepth();
\* and draw returns.
DrawRender ==
    /\ pc = "render"
    /\ pc' = "idle"
    /\ active' = active - 1
    /\ stage' = StageAfter(FALSE)
    /\ hist' = [hist EXCEPT !.completed = @ + 1,
                            !.prevFrame = hist.lastFrame,
                            !.lastFrame = [i \in DOMAIN lines |-> Attributes(i)]]
    /\ UNCHANGED <<viewVars, pending, loopVars, zoff, lines, pivots, colors,
                   tunVars, orbitVars, guiVars, mapVars>>

\* stats.update(), controls.update() or a renderer call throws: nothing in
\* draw catches it, so the pass ends where it stands.  (The cell update
\* itself throws only on an index outside lines; see DrawCell.)
DrawThrow ==
    /\ \/ pc = "cells" /\ hist.cellsVisited = 0    \* stats.update()
       \/ pc = "render"
    /\ hist.throws < MaxThrows
    /\ pc' = "idle"
    /\ active' = active - 1
    /\ stage' = StageAfter(TRUE)
    /\ hist' = [hist EXCEPT !.throws = @ + 1]
    /\ UNCHANGED <<viewVars, pending, loopVars, zoff, lines, pivots, colors,
                   tunVars, orbitVars, guiVars, mapVars>>

\* ------------------------------------------------------------------ panel
\* setupGUI(): the panel is created hidden and the stats overlay, appended
\* by setup(), is taken off the page; the handlers below exist from here on.
setupGUIKeepsStats ==
    /\ stage = "setupGUI"
    /\ stage' = "loop"
    /\ guiVisible' = FALSE
    /\ instructionsDisplay' = IF isMobile THEN "none" ELSE instructionsDisplay
    /\ UNCHANGED <<viewVars, pc, active, pending, loopVars, zoff, lines, pivots,
                   colors, tunVars, orbitVars, showGUI, statsAttached, mapVars, hist>>

setupGUI ==
    /\ stage = "setupGUI"
    /\ stage' = "loop"
    /\ guiVisible' = FALSE
    /\ statsAttached' = FALSE
    /\ instructionsDisplay' = IF isMobile THEN "none" ELSE instructionsDisplay
    /\ hist' = [hist EXCEPT !.domMisuse = @ \/ ~statsAttached]
    /\ UNCHANGED <<viewVars, pc, active, pending, loopVars, zoff, lines, pivots,
                   colors, tunVars, orbitVars, showGUI, mapVars>>

\* The browser dispatches an input event to a handler only on an empty stack,
\* and only handlers that setupGUI registered exist.
Dispatch ==
    /\ stage = "loop"
    /\ active = 0
    /\ hist.events < MaxEvents

Dispatched(h) == [h EXCEPT !.events = @ + 1]

LineWidthChoices == {LineWidthMin, LineWidthMax}
LineHeightChoices == {LineHeightMax}
NoiseSpeedChoices == {NoiseSpeedMax}
NoiseIncrementChoices == {NoiseIncrementMin}

\* .onChange((val) => (lineWidth = val))
SetLineWidth(val) ==
    /\ Dispatch
    /\ lineWidth' = val
    /\ hist' = Dispatched(hist)
    /\ UNCHANGED <<viewVars, stage, pc, active, pending, loopVars, zoff, lines,
                   pivots, colors, lineHeight, noiseSpeed, noiseIncrementX,
                   noiseIncrementY, hasXrotation, hasYrotation, hasZrotation,
                   orbitVars, guiVars, mapVars>>

\* .onChange((val) => (lineHeight = val))
SetLineHeight(val) ==
    /\ Dispatch
    /\ lineHeight' = val
    /\ hist' = Dispatched(hist)
    /\ UNCHANGED <<viewVars, stage, pc, active, pending, loopVars, zoff, lines,
                   pivots, colors, lineWidth, noiseSpeed, noiseIncrementX,
                   noiseIncrementY, hasXrotation, hasYrotation, hasZrotation,
                   orbitVars, guiVars, mapVars>>

\* .onChange((val) => (noiseSpeed = val))
SetNoiseSpeed(val) ==
    /\ Dispatch
    /\ noiseSpeed' = val
    /\ hist' = Dispatched(hist)
    /\ UNCHANGED <<viewVars, stage, pc, active, pending, loopVars, zoff, lines,
                   pivots, colors, lineWidth, lineHeight, noiseIncrementX,
                   noiseIncrementY, hasXrotation, hasYrotation, hasZrotation,
                   orbitVars, guiVars, mapVars>>

\* .onChange((val) => (noiseIncrementX = val))
SetNoiseIncrementX(val) ==
    /\ Dispatch
    /\ noiseIncrementX' = val
    /\ hist' = Dispatched(hist)
    /\ UNCHANGED <<viewVars, stage, pc, active, pending, loopVars, zoff, lines,
                   pivots, colors, lineWidth, lineHeight, noiseSpeed,
                   noiseIncrementY, hasXrotation, hasYrotation, hasZrotation,
                   orbitVars, guiVars, mapVars>>

\* .onChange((val) => (noiseIncrementY = val))
SetNoiseIncrementY(val) ==
    /\ Dispatch
    /\ noiseIncrementY' = val
    /\ hist' = Dispatched(hist)
    /\ UNCHANGED <<viewVars, stage, pc, active, pending, loopVars, zoff, lines,
                   pivots, colors, lineWidth, lineHeight, noiseSpeed,
                   noiseIncrementX, hasXrotation, hasYrotation, hasZrotation,
                   orbitVars, guiVars, mapVars>>

\* randomColour with Math.random() returning r, g, b: the last three numbers
\* of colors are redrawn and every line's geometry is given the array.
randomColourStale(r, g, b) ==
    /\ colors' = [colors EXCEPT ![4] = r, ![5] = g, ![6] = b]
    /\ lines' = [i \in DOMAIN lines |->
                   IF i = 1 THEN [lines[i] EXCEPT !.colors = colors'] ELSE lines[i]]

randomColour(r, g, b) ==
    /\ colors' = [colors EXCEPT ![4] = r, ![5] = g, ![6] = b]
    /\ lines' = [i \in DOMAIN lines |-> [lines[i] EXCEPT !.colors = colors']]

\* The "Change random colour" button.
ChangeRandomColour(r, g, b) ==
    /\ Dispatch
    /\ randomColour(r, g, b)
    /\ hist' = [Dispatched(hist) EXCEPT !.randomised = TRUE]
    /\ UNCHANGED <<viewVars, stage, pc, active, pending, loopVars, zoff, pivots,
                   tunVars, orbitVars, guiVars, mapVars>>

\* .onChange(() => (hasXrotation = !hasXrotation))
ToggleRotationX ==
    /\ Dispatch
    /\ hasXrotation' = ~hasXrotation
    /\ hist' = Dispatched(hist)
    /\ UNCHANGED <<viewVars, stage, pc, active, pending, loopVars, zoff, lines,
                   pivots, colors, lineWidth, lineHeight, noiseSpeed,
                   noiseIncrementX, noiseIncrementY, hasYrotation, hasZrotation,
                   orbitVars, guiVars, mapVars>>

\* .onChange(() => (hasYrotation = !hasYrotation))
ToggleRotationY ==
    /\ Dispatch
    /\ hasYrotation' = ~hasYrotation
    /\ hist' = Dispatched(hist)
    /\ UNCHANGED <<viewVars, stage, pc, active, pending, loopVars, zoff, lines,
                   pivots, colors, lineWidth, lineHeight, noiseSpeed,
                   noiseIncrementX, noiseIncrementY, hasXrotation, hasZrotation,
                   orbitVars, guiVars, mapVars>>

\* "Toggle mouse camera controls"
ToggleMouseControls ==
    /\ Dispatch
    /\ isOrbitControlsEnabled' = ~isOrbitControlsEnabled
    /\ controlsEnabled' = isOrbitControlsEnabled'
    /\ hist' = Dispatched(hist)
    /\ UNCHANGED <<viewVars, stage, pc, active, pending, loopVars, zoff, lines,
                   pivots, colors, tunVars, guiVars, mapVars>>

\* ---------------------------------------------------------------- keyboard
\* e.key.toLocaleLowerCase()
toLocaleLowerCase(key) == IF key = "H" THEN "h" ELSE key

\* The keydown listener.
KeyDown(key) ==
    /\ Dispatch
    /\ LET isH == toLocaleLowerCase(key) = "h"
           h == [Dispatched(hist) EXCEPT !.hPresses = IF isH THEN @ + 1 ELSE @]
       IN  IF isH /\ ~isMobile
           THEN /\ showGUI' = ~showGUI
                /\ IF showGUI'
                   THEN /\ guiVisible' = TRUE
                        /\ statsAttached' = TRUE
                        /\ instructionsDisplay' = "none"
                        /\ hist' = [h EXCEPT !.domMisuse = @ \/ statsAttached]
                   ELSE /\ guiVisible' = FALSE
                        /\ statsAttached' = FALSE
                        \* removeChild of a node that is no child throws
                        /\ instructionsDisplay' =
                             IF ~statsAttached THEN instructionsDisplay
                             ELSE IF variant = "main" THEN "block" ELSE "flex"
                        /\ hist' = [h EXCEPT !.domMisuse = @ \/ ~statsAttached]
           ELSE /\ hist' = h
                /\ UNCHANGED guiVars
    /\ UNCHANGED <<viewVars, stage, pc, active, pending, loopVars, zoff, lines,
                   pivots, colors, tunVars, orbitVars, mapVars>>

\* ----------------------------------------------------------- specification
Draw == CallDraw \/ FrameCallback \/ DrawCell \/ DrawRender \/ DrawThrow

Panel ==
    \/ \E val \in LineWidthChoices : SetLineWidth(val)
    \/ \E val \in LineHeightChoices : SetLineHeight(val)
    \/ \E val \in NoiseSpeedChoices : SetNoiseSpeed(val)
    \/ \E val \in NoiseIncrementChoices : SetNoiseIncrementX(val)
    \/ \E val \in NoiseIncrementChoices : SetNoiseIncrementY(val)
    \/ \E d \in RandomDraws : ChangeRandomColour(d[1], d[2], d[3])
    \/ ToggleRotationX
    \/ ToggleRotationY
    \/ ToggleMouseControls

Next ==
    \/ Draw
    \/ setupGUI
    \/ Panel
    \/ \E key \in Keys : KeyDown(key)

Spec == Init /\ [][Next]_vars

\* The loop started with a still noise field: noiseSpeed, noiseIncrementX and
\* noiseIncrementY initialised to 0 (the panel's ranges exclude 0), and no
\* tunable changed afterwards.
InitStatic == InitWith(Pages, Seeds, 0, 0, 0, {<<>>})

NextStatic ==
    \/ Draw
    \/ setupGUI
    \/ \E d \in RandomDraws : ChangeRandomColour(d[1], d[2], d[3])
    \/ \E key \in Keys : KeyDown(key)

SpecStatic == InitStatic /\ [][NextStatic]_vars

\* mapNoise on its own: the arguments are drawn at the start, one step
\* evaluates the function at the points the properties compare.
MapInputs == -MaxMapInput .. MaxMapInput

MapArgs ==
    [v : MapInputs, w : MapInputs, d : MapInputs, in_min : MapInputs,
     in_max : MapInputs, out_min : MapInputs, out_max : MapInputs]

ApplyMapNoise ==
    /\ mapArgs # <<>>
    /\ mapOut = <<>>
    /\ LET a == mapArgs
           f(c) == mapNoise(Num(c), Num(a.in_min), Num(a.in_max),
                            Num(a.out_min), Num(a.out_max))
       IN  mapOut' = [atV |-> f(a.v), atVd |-> f(a.v + a.d),
                      atW |-> f(a.w), atWd |-> f(a.w + a.d),
                      atMin |-> f(a.in_min), atMax |-> f(a.in_max)]
    /\ UNCHANGED <<viewVars, stage, pc, active, pending, loopVars, zoff, lines,
                   pivots, colors, tunVars, orbitVars, guiVars, mapArgs, hist>>

InitMap ==
    InitWith({<<"main", 30, 20>>}, {0}, NoiseSpeedInit, NoiseIncrementXInitMobile,
             NoiseIncrementYInitMobile, MapArgs)

SpecMap == InitMap /\ [][ApplyMapNoise]_vars

\* ================================================================ properties
Zero == Num(0)
One == Num(1)

\* The cells the pass in progress has written so far.
CellsWritten == IF pc = "idle" THEN {} ELSE 1 .. hist.cellsVisited

OddPresses == hist.hPresses % 2 = 1

\* C1, as claimed: once setupGUI has run, the panel and the stats overlay are
\* both visible exactly when the number of H keydowns so far is odd, the panel
\* is visible iff the overlay is attached iff showGUI, and the overlay is never
\* removed while detached nor appended while attached.
C1_EveryHPressToggles ==
    stage = "loop" =>
        /\ guiVisible <=> OddPresses
        /\ statsAttached <=> OddPresses
        /\ showGUI <=> OddPresses
        /\ ~hist.domMisuse

\* C1, amended: the same, except that in main.js's mobile layout (isMobile)
\* the H key does nothing and both stay hidden.
C1_HPressTogglesUnlessMobile ==
    stage = "loop" =>
        /\ guiVisible <=> showGUI
        /\ statsAttached <=> showGUI
        /\ showGUI <=> (OddPresses /\ ~isMobile)
        /\ ~hist.domMisuse

C1_Witness ==
    /\ variant = "main"
    /\ ~isMobile
    /\ hist.hPresses = 2
    /\ hist.passes = 2
    /\ ~guiVisible
    /\ ~statsAttached

\* C2: the first colour of the pair is never changed, every line holds the
\* current pair, and once randomColour has run the three components of the
\* second colour are in [0, 1).
C2_RandomColourReachesEveryLine ==
    /\ SubSeq(colors, 1, 3) = SubSeq(ColorsInit, 1, 3)
    /\ \A i \in DOMAIN lines : lines[i].colors = colors
    /\ hist.randomised =>
          \A k \in 4 .. 6 : 0 <= colors[k] /\ colors[k] < ColorScale

C2_Witness ==
    /\ hist.randomised
    /\ colors # ColorsInit
    /\ Len(lines) > 1
    /\ hist.completed >= 1

\* C3: with noiseSpeed, noiseIncrementX and noiseIncrementY at 0 every cell
\* samples the same noise coordinate, a complete pass leaves every cell with
\* the same attributes, and two consecutive complete passes leave the same
\* attributes.
C3_StaticSteadyState ==
    /\ \A i, j \in DOMAIN hist.coords :
          hist.coords[i] # <<>> /\ hist.coords[j] # <<>>
            => hist.coords[i] = hist.coords[j]
    /\ \A i, j \in DOMAIN hist.lastFrame : hist.lastFrame[i] = hist.lastFrame[j]
    /\ hist.completed >= 2 => hist.prevFrame = hist.lastFrame

C3_Witness ==
    /\ noiseSpeed = 0 /\ noiseIncrementX = 0 /\ noiseIncrementY = 0
    /\ hist.completed = 2
    /\ Len(hist.lastFrame) > 1
    /\ hist.lastFrame[1][1] # One

\* C4: lines and pivots always hold rows * cols entries, rows and cols being
\* the ceilings of height / step and width / step; every entry is the one
\* initLinesGrid created, at the position it was given; and the index a pass
\* is about to use is within 0 .. rows * cols - 1.
C4_GridSizeFixed ==
    /\ (rows - 1) * gridResolution < height /\ height <= rows * gridResolution
    /\ (cols - 1) * gridResolution < width /\ width <= cols * gridResolution
    /\ Len(lines) = rows * cols
    /\ Len(pivots) = rows * cols
    /\ \A i \in DOMAIN lines : lines[i].id = i
    /\ \A i \in DOMAIN pivots :
          /\ pivots[i].id = i
          /\ pivots[i].position =
               <<RatSub(Num(((i - 1) % cols) * gridResolution), Rat(width, 2)),
                 RatSub(Num(((i - 1) \div cols) * gridResolution), Rat(height, 2))>>
    /\ pc = "cells" => lineIndex \in 0 .. rows * cols - 1

C4_Witness ==
    /\ hist.completed = 2
    /\ hist.events = 2
    /\ hist.randomised
    /\ hist.hPresses = 1

\* C5, as claimed: when a pass has written every cell, each pivot's rotation
\* about x is the cell's angle if hasXrotation and 0 otherwise, and its
\* rotation about y is the cell's angle if hasYrotation and 0 otherwise.
C5_RotationFollowsOwnFlag ==
    pc = "render" =>
        \A i \in DOMAIN pivots :
            /\ pivots[i].rx = IF hasXrotation THEN hist.angle[i] ELSE Zero
            /\ pivots[i].ry = IF hasYrotation THEN hist.angle[i] ELSE Zero

\* C6: for in_min # in_max, mapNoise returns out_min at in_min and out_max at
\* in_max, and equal steps of its first argument give equal steps of the
\* result.
C6_MapNoiseAffine ==
    (mapOut # <<>> /\ mapArgs.in_min # mapArgs.in_max) =>
        /\ mapOut.atMin = Num(mapArgs.out_min)
        /\ mapOut.atMax = Num(mapArgs.out_max)
        /\ RatSub(mapOut.atVd, mapOut.atV) = RatSub(mapOut.atWd, mapOut.atW)

C6_Witness ==
    /\ mapOut # <<>>
    /\ mapArgs.in_min # mapArgs.in_max
    /\ mapArgs.out_min # mapArgs.out_max
    /\ mapArgs.d # 0
    /\ mapArgs.v # mapArgs.w
    /\ mapOut.atVd # mapOut.atV

\* C7, as claimed: once an exception has left a draw pass, no draw pass
\* begins any more.
C7_ExceptionStopsTheLoop ==
    [][hist.throws > 0 => hist.passes' = hist.passes]_vars

\* C7, amended: an exception ends only the pass it is thrown in; the next
\* pass was requested before it and stays requested, so exactly one draw
\* callback is pending whenever no pass is executing after an exception.
C7_NextPassStaysRequested ==
    (hist.throws > 0 /\ pc = "idle") => (pending = 1 /\ active = 0)

C7_Witness ==
    /\ hist.throws > 0
    /\ hist.resumed
    /\ hist.passes = 2
    /\ pc = "render"

\* C8, as claimed: the next pass is scheduled only after the current one has
\* returned, so no draw callback is pending while a pass is executing.
C8_ScheduledAfterReturn == active > 0 => pending = 0

\* C8, amended: the next pass is requested at the top of the current one and
\* begins only after it has returned: a pass begins only on an empty stack and
\* takes one callback, at most one pass is executing and at most one callback
\* is pending, and handlers run only while no pass is executing.
C8_PassesNeverOverlap ==
    [][/\ active' <= 1
       /\ pending' <= 1
       /\ hist.passes' # hist.passes =>
             /\ active = 0 /\ active' = 1
             /\ hist.passes' = hist.passes + 1
             /\ pending' = 1
       /\ hist.events' # hist.events => active = 0 /\ active' = 0
       /\ (active' = 1) <=> (pc' # "idle")]_vars

C8_Witness ==
    /\ active = 1
    /\ pending = 1
    /\ hist.passes = 2
    /\ hist.events >= 1
    /\ pc = "cells"
    /\ lineIndex > 0

\* C9, as claimed: a complete pass leaves zoff increased by
\* rows * cols * noiseSpeed.
C9_ZoffAdvancesPerCell ==
    pc = "render" => zoff = hist.passStartZ + rows * cols * noiseSpeed

\* C9, amended: zoff advances by noiseSpeed once per row, so a complete pass
\* increases it by rows * noiseSpeed; it never decreases and nothing but a
\* pass changes it; the column offset restarts at 0 in every row and the row
\* offset in every pass.
C9_ZoffAdvancesPerRow ==
    [][/\ zoff' >= zoff
       /\ pc' = "idle" /\ pc = "idle" => zoff' = zoff
       /\ hist.passes' # hist.passes => xoff' = 0 /\ yoff' = 0 /\ zoff' = zoff
       /\ pc' = "cells" =>
             /\ zoff' = hist.passStartZ' + y' * noiseSpeed
             /\ yoff' = y' * noiseIncrementY
             /\ xoff' = x' * noiseIncrementX
       /\ pc' = "render" => zoff' = hist.passStartZ' + rows * noiseSpeed]_vars

C9_Witness ==
    /\ pc = "render"
    /\ rows > 1
    /\ cols > 1
    /\ hist.passStartZ > 0
    /\ noiseSpeed = NoiseSpeedMax
    /\ zoff = hist.passStartZ + rows * noiseSpeed

\* What C10 says of every cell a pass has written, but for the angle.
CellRanges(i) ==
    LET n == hist.sample[i]
    IN  /\ RatLeq(Num(-1), n) /\ RatLeq(n, One)
        /\ LineWidthMin <= lineWidth /\ lineWidth <= LineWidthMax
        /\ LineHeightMin <= lineHeight /\ lineHeight <= LineHeightMax
        /\ RatLeq(Zero, lines[i].opacity) /\ RatLeq(lines[i].opacity, One)
        /\ RatLeq(Zero, lines[i].scaleZ) /\ RatLeq(lines[i].scaleZ, Num(lineHeight))
        /\ RatLeq(One, lines[i].linewidth)
        /\ RatLeq(lines[i].linewidth, Num(lineWidth))
        /\ n = Num(-1) =>
              /\ lines[i].opacity = Zero /\ lines[i].scaleZ = Zero
              /\ lines[i].linewidth = One /\ hist.angle[i] = Zero
        /\ n = One =>
              /\ lines[i].opacity = One /\ lines[i].scaleZ = Num(lineHeight)
              /\ lines[i].linewidth = Num(lineWidth)
        /\ \A j \in CellsWritten :
              hist.sample[j] = n =>
                  /\ Attributes(j) = Attributes(i)
                  /\ hist.angle[j] = hist.angle[i]

\* C10, as claimed: every cell written has opacity in [0, 1], z-scale in
\* [0, lineHeight], line width in [1, lineWidth] and angle in [0, pi], the
\* lower ends at n = -1 and the upper ends at n = 1, equal samples giving
\* equal values.
C10_AngleInZeroToPi ==
    \A i \in CellsWritten :
        /\ CellRanges(i)
        /\ RatLeq(Zero, hist.angle[i]) /\ RatLeq(hist.angle[i], PI)
        /\ hist.sample[i] = One => hist.angle[i] = PI

\* C10, amended: the same, with the angle in [0, pi] in main.js and in
\* [-pi, 0] in the earlier variant, 0 at n = -1 and pi, respectively -pi, at
\* n = 1.
C10_AngleSignByVariant ==
    \A i \in CellsWritten :
        /\ CellRanges(i)
        /\ variant = "main" =>
              /\ RatLeq(Zero, hist.angle[i]) /\ RatLeq(hist.angle[i], PI)
              /\ hist.sample[i] = One => hist.angle[i] = PI
        /\ variant = "part_000" =>
              /\ RatLeq(RatNeg(PI), hist.angle[i]) /\ RatLeq(hist.angle[i], Zero)
              /\ hist.sample[i] = One => hist.angle[i] = RatNeg(PI)

C10_Witness ==
    /\ pc = "render"
    /\ lineWidth = LineWidthMax
    /\ lineHeight = LineHeightMax
    /\ \E i, j, k \in CellsWritten :
          /\ hist.sample[i] = One
          /\ hist.sample[j] = Num(-1)
          /\ hist.sample[k] = hist.sample[i] /\ k # i

====
